---- MODULE Spec2Model ----
(***************************************************************************)
(* EduConnect (src/app.py): the submission / grading data model.           *)
(*                                                                         *)
(* The three tables of init_db (users, papers, solutions) are the state.   *)
(* Every db.execute(sql, params) of a handler is modelled by the meaning   *)
(* of its SQL statement on those tables, taking effect when it is          *)
(* executed (no handler commits or rolls back, and none wraps its          *)
(* statements in a transaction block).  The declared constraints of the    *)
(* schema are kept: users.username is a PRIMARY KEY, solutions.paper_id    *)
(* REFERENCES papers(id) (no ON DELETE clause), the id columns are SERIAL. *)
(* The Flask session is a client-side cookie: one per browser.             *)
(*                                                                         *)
(* Numbers: a Python float / SQL REAL is held in halves (the integer h     *)
(* stands for h/2), an INTEGER column holds an integer.  A nullable column *)
(* holds NULL (the empty tuple) or <<v>>.  A file name is the tuple of its *)
(* dot-separated parts (<<>> is the empty name).  What a handler answers   *)
(* (its flash message, redirect or abort) is the "res" field of the        *)
(* operator that computes the handler's outcome from the state and the     *)
(* request.                                                                *)
(***************************************************************************)
EXTENDS Integers, Sequences, FiniteSets, TLC

VARIABLES users, papers, solutions, nextPaperId, nextSolId, nextGroup,
          now, sessions, reqs

vars == <<users, papers, solutions, nextPaperId, nextSolId, nextGroup,
          now, sessions, reqs>>

----------------------------------------------------------------------------
(* Bounds of the model *)

MaxPaperId == 2
MaxSolId == 3
MaxGroup == 2
MaxFiles == 2
MaxClock == 2
MaxBrowser == 2

----------------------------------------------------------------------------
(* Values *)

NULL == << >>

IsNull(v) == v = NULL

NoSession == [username |-> "", role |-> ""]

ALLOWED_IMAGE_EXT == {"jpg", "jpeg", "png"}

DEFAULT_USERS ==
    { [username |-> "admin", password |-> "Ujjwal9512", role |-> "teacher",
       name |-> "Admin", profile_pic |-> NULL],
      [username |-> "Rakhi", password |-> "Rakhi@9523", role |-> "student",
       name |-> "Rakhi", profile_pic |-> NULL],
      [username |-> "student02", password |-> "student02", role |-> "student",
       name |-> "Student Two", profile_pic |-> NULL],
      [username |-> "student03", password |-> "student03", role |-> "student",
       name |-> "Student Three", profile_pic |-> NULL] }

(* str.lower() on the strings the model uses *)
Lower(s) ==
    CASE s = "PNG" -> "png"
      [] s = "JPG" -> "jpg"
      [] s = "Rakhi" -> "rakhi"
      [] OTHER -> s

(* werkzeug secure_filename on one part of a name: blanks become "_" *)
SecurePart(s) ==
    CASE s = "my a" -> "my_a"
      [] OTHER -> s

secure_filename(f) == [i \in 1..Len(f) |-> SecurePart(f[i])]

(* filename.rsplit(".", 1)[-1].lower() *)
Ext(f) == Lower(f[Len(f)])

----------------------------------------------------------------------------
(* Input domains *)

Browsers == 1..MaxBrowser

(* login forms: <<username, password, role>> *)
LoginForms ==
    { <<"admin", "Ujjwal9512", "teacher">>,
      <<"Rakhi", "Rakhi@9523", "student">>,
      <<"admin", "Ujjwal9512", "student">> }

PaperIdInputs == 0..MaxPaperId          \* 0: the form has no paper_id

(* The files of a request: the k-th file of a batch that has an allowed
   extension is named ValidNames[k]; a file may also be nameless or a PDF. *)
ValidNames == << <<"my a", "jpg">>, <<"b", "PNG">>, <<"d", "jpeg">>, <<"e", "png">> >>

InvalidName == <<"c", "pdf">>

RECURSIVE SeqsUpTo(_, _)
SeqsUpTo(S, n) ==
    IF n = 0 THEN { << >> }
    ELSE LET shorter == SeqsUpTo(S, n - 1)
         IN  shorter \cup { Append(q, x) : q \in shorter, x \in S }

RECURSIVE NameFiles(_, _)
NameFiles(kinds, k) ==
    IF kinds = << >> THEN << >>
    ELSE LET h == Head(kinds) IN
         IF h = "valid" THEN <<ValidNames[k]>> \o NameFiles(Tail(kinds), k + 1)
         ELSE IF h = "invalid" THEN <<InvalidName>> \o NameFiles(Tail(kinds), k)
         ELSE << << >> >> \o NameFiles(Tail(kinds), k)

FileBatches ==
    { NameFiles(q, 1) : q \in SeqsUpTo({"empty", "valid", "invalid"}, MaxFiles) }

GroupIds == { <<"uuid", n>> : n \in 1..MaxGroup }

(* request.form of grade_solution: "None" stands for a field the form lacks *)
GradeFields == {"total_questions", "attempted", "correct", "incorrect",
                "total_marks", "obtained_marks", "passing_marks"}

GradeForms ==
    { [total_questions |-> "3", attempted |-> "3", correct |-> "2",
       incorrect |-> "1", total_marks |-> "3", obtained_marks |-> "2",
       passing_marks |-> "3"],
      [total_questions |-> "3", attempted |-> "3", correct |-> "3",
       incorrect |-> "", total_marks |-> "3", obtained_marks |-> "3",
       passing_marks |-> "2"],
      [total_questions |-> "2.5", attempted |-> "abc", correct |-> "None",
       incorrect |-> "2", total_marks |-> "2.5", obtained_marks |-> "2.5",
       passing_marks |-> "2.5"] }

(* request.form / request.files of student_profile: "" and <<>> stand for a
   field that is absent or empty *)
ProfileForms ==
    { [name |-> "", username |-> "zed", password |-> "", confirm |-> "",
       avatar |-> << >>],
      [name |-> "", username |-> "Rakhi", password |-> "", confirm |-> "",
       avatar |-> << >>],
      [name |-> "", username |-> "student02", password |-> "", confirm |-> "",
       avatar |-> << >>] }

PageInputs == (-1)..(MaxSolId + 1)

----------------------------------------------------------------------------
(* The schema and the SQL statements of the handlers *)

NewSolution(id, paper_id, student_username, filename, submitted_at, group) ==
    [ id |-> id, paper_id |-> paper_id, student_username |-> student_username,
      filename |-> filename, submitted_at |-> submitted_at,
      submission_group |-> group,
      total_questions |-> NULL, attempted |-> NULL, correct |-> NULL,
      incorrect |-> NULL, total_marks |-> NULL, obtained_marks |-> NULL,
      passing_marks |-> NULL, result_status |-> NULL ]

PaperIds(paps) == { p.id : p \in paps }

(* SELECT COUNT FROM solutions WHERE student_username = u AND paper_id = p *)
CountExisting(sols, u, p) ==
    Cardinality({ i \in 1..Len(sols) :
                    sols[i].student_username = u /\ sols[i].paper_id = p })

(* a solutions table without the REFERENCES clause *)
ForeignKeyOk_NotDeclared(paps, paper_id) == TRUE

(* paper_id REFERENCES papers(id): the INSERT is refused for an unknown paper *)
ForeignKeyOk(paps, paper_id) == paper_id \in PaperIds(paps)

(* INSERT INTO solutions (paper_id, student_username, filename, submitted_at,
   submission_group): [ok, sols] *)
InsertSolution(sols, paps, row) ==
    IF ForeignKeyOk(paps, row.paper_id)
    THEN [ok |-> TRUE, sols |-> Append(sols, row)]
    ELSE [ok |-> FALSE, sols |-> sols]

(* DELETE FROM solutions WHERE paper_id = p *)
DeleteSolutionsOfPaper(sols, p) ==
    LET Keep(r) == r.paper_id # p IN SelectSeq(sols, Keep)

(* DELETE FROM papers WHERE id = p: refused while a solution references p *)
DeletePaperRow(paps, sols, p) ==
    IF \E i \in 1..Len(sols) : sols[i].paper_id = p
    THEN [ok |-> FALSE, papers |-> paps]
    ELSE [ok |-> TRUE, papers |-> { q \in paps : q.id # p }]

(* SELECT * FROM solutions WHERE submission_group = g ORDER BY id *)
RowsOfGroup(sols, g) ==
    LET InGroup(r) == r.submission_group = g IN SelectSeq(sols, InGroup)

----------------------------------------------------------------------------
(* login_required and the session cookie *)

LoggedIn(b, role) == sessions[b].username # "" /\ sessions[b].role = role

(* get_current_user: SELECT * FROM users WHERE username = session["username"] *)
CurrentUser(b) == { u \in users : u.username = sessions[b].username }

----------------------------------------------------------------------------
(* upload_solution *)

(* the group identifier generated inside the loop, once per file *)
InsertFile_GroupPerFile(f, sols, nid, paps, c, t) ==
    IF f = << >> THEN [res |-> "continue", sols |-> sols, nid |-> nid]
    ELSE IF Ext(f) \notin ALLOWED_IMAGE_EXT
    THEN [res |-> "bad_ext", sols |-> sols, nid |-> nid]
    ELSE LET fname == <<"sol", t, secure_filename(f)>>
             ins == InsertSolution(sols, paps,
                        NewSolution(nid, c.paper, c.user, fname,
                                    c.now_str, <<"uuid", c.group[2] + nid>>))
         IN  IF ins.ok
             THEN [res |-> "continue", sols |-> ins.sols, nid |-> nid + 1]
             ELSE [res |-> "fk_error", sols |-> sols, nid |-> nid]

(* One pass of the loop body for file f.
   c: [paper, user, group, now_str];  t: datetime.now() of this pass *)
InsertFile(f, sols, nid, paps, c, t) ==
    IF f = << >> THEN [res |-> "continue", sols |-> sols, nid |-> nid]
    ELSE IF Ext(f) \notin ALLOWED_IMAGE_EXT
    THEN [res |-> "bad_ext", sols |-> sols, nid |-> nid]
    ELSE LET fname == <<"sol", t, secure_filename(f)>>
             ins == InsertSolution(sols, paps,
                        NewSolution(nid, c.paper, c.user, fname,
                                    c.now_str, c.group))
         IN  IF ins.ok
             THEN [res |-> "continue", sols |-> ins.sols, nid |-> nid + 1]
             ELSE [res |-> "fk_error", sols |-> sols, nid |-> nid]

(* The loop over the files, from file i on *)
RECURSIVE InsertFiles(_, _, _, _, _, _, _)
InsertFiles(files, i, sols, nid, paps, c, t) ==
    IF i > Len(files) THEN [res |-> "ok", sols |-> sols, nid |-> nid]
    ELSE LET r == InsertFile(files[i], sols, nid, paps, c, t)
         IN  IF r.res = "continue"
             THEN InsertFiles(files, i + 1, r.sols, r.nid, paps, c, t)
             ELSE r

(* not files or all(not f.filename for f in files) *)
NoFileChosen(files) == \A i \in 1..Len(files) : files[i] = << >>

(* The checks before the loop: "go" when the loop is entered *)
UploadChecks(sols, user, paper_id, files) ==
    IF paper_id = 0 THEN "no_paper"
    ELSE IF CountExisting(sols, user, paper_id) > 0 THEN "duplicate"
    ELSE IF NoFileChosen(files) THEN "no_files"
    ELSE "go"

(* The whole handler, run to completion at time t.
   gen: a group identifier was generated *)
UploadSolutionResult(user, paper_id, files, t) ==
    LET chk == UploadChecks(solutions, user, paper_id, files) IN
    IF chk # "go"
    THEN [res |-> chk, sols |-> solutions, nid |-> nextSolId, gen |-> FALSE]
    ELSE LET r == InsertFiles(files, 1, solutions, nextSolId, papers,
                     [paper |-> paper_id, user |-> user,
                      group |-> <<"uuid", nextGroup>>, now_str |-> t], t)
         IN  [res |-> r.res, sols |-> r.sols, nid |-> r.nid, gen |-> TRUE]

----------------------------------------------------------------------------
(* grade_solution *)

(* int(val): the integer a string spells, NULL for a ValueError *)
IntLiteral(val) ==
    CASE val = "1" -> <<1>>
      [] val = "2" -> <<2>>
      [] val = "3" -> <<3>>
      [] OTHER -> NULL

(* float(val), in halves: NULL for a ValueError *)
FloatLiteral(val) ==
    CASE val = "1" -> <<2>>
      [] val = "2" -> <<4>>
      [] val = "3" -> <<6>>
      [] val = "2.5" -> <<5>>
      [] OTHER -> NULL

(* "if val": None and the empty string are false *)
Truthy(val) == val \notin {"None", ""}

to_int(val) ==
    IF ~Truthy(val) THEN 0
    ELSE IF IsNull(IntLiteral(val)) THEN 0 ELSE IntLiteral(val)[1]

to_float(val) ==
    IF ~Truthy(val) THEN 0
    ELSE IF IsNull(FloatLiteral(val)) THEN 0 ELSE FloatLiteral(val)[1]

(* the status of line 660, on the parsed floats (both in halves) *)
Status(obtained_marks, passing_marks) ==
    IF obtained_marks >= passing_marks THEN "PASS" ELSE "FAIL"

(* The parameters of the UPDATE: integers, floats in halves, the status *)
GradeParams(form) ==
    [ total_questions |-> to_int(form.total_questions),
      attempted       |-> to_int(form.attempted),
      correct         |-> to_int(form.correct),
      incorrect       |-> to_int(form.incorrect),
      total_marks     |-> to_float(form.total_marks),
      obtained_marks  |-> to_float(form.obtained_marks),
      passing_marks   |-> to_float(form.passing_marks),
      status |-> Status(to_float(form.obtained_marks),
                        to_float(form.passing_marks)) ]

(* A numeric value (in halves) assigned to an INTEGER column is rounded to
   the nearest integer, ties away from zero *)
ToIntegerColumn(h) ==
    IF h % 2 = 0 THEN h \div 2
    ELSE IF h > 0 THEN (h + 1) \div 2 ELSE (h - 1) \div 2

(* One row after SET ...: total_marks is an INTEGER column, obtained_marks
   and passing_marks are REAL *)
GradedRow(r, v) ==
    [r EXCEPT !.total_questions = <<v.total_questions>>,
              !.attempted = <<v.attempted>>,
              !.correct = <<v.correct>>,
              !.incorrect = <<v.incorrect>>,
              !.total_marks = <<ToIntegerColumn(v.total_marks)>>,
              !.obtained_marks = <<v.obtained_marks>>,
              !.passing_marks = <<v.passing_marks>>,
              !.result_status = <<v.status>>]

(* an UPDATE without its WHERE clause *)
MatchesGroup_NoWhere(r, g) == TRUE

(* WHERE submission_group = g: no row matches a NULL parameter *)
MatchesGroup(r, g) == g # NULL /\ r.submission_group = g

(* the UPDATE reaching only the first row of the group *)
GradeUpdate_FirstRowOnly(sols, g, v) ==
    [i \in 1..Len(sols) |->
        IF /\ MatchesGroup(sols[i], g)
           /\ \A j \in 1..(i - 1) : ~MatchesGroup(sols[j], g)
        THEN GradedRow(sols[i], v) ELSE sols[i]]

(* UPDATE solutions SET ... WHERE submission_group = g *)
GradeUpdate(sols, g, v) ==
    [i \in 1..Len(sols) |->
        IF MatchesGroup(sols[i], g) THEN GradedRow(sols[i], v) ELSE sols[i]]

----------------------------------------------------------------------------
(* view_submission: what the page shows for ?page=page *)

(* a page past the end wrapping to the first page *)
ClampPage_WrapToFirst(page, n) ==
    IF page > n THEN 1 ELSE IF page < 1 THEN 1 ELSE page

ClampPage(page, n) ==
    LET p1 == IF page < 1 THEN 1 ELSE page
    IN  IF p1 > n THEN n ELSE p1

ViewSubmission(sols, g, page) ==
    LET rows == RowsOfGroup(sols, g) IN
    IF rows = << >> THEN [res |-> "not_found"]
    ELSE LET pg == ClampPage(page, Len(rows))
         IN  [res |-> "ok", current_file |-> rows[pg].filename,
              page |-> pg, total |-> Len(rows)]

----------------------------------------------------------------------------
(* teacher_dashboard: student_stats *)

RECURSIVE SumObtained(_)
SumObtained(rows) ==
    IF rows = << >> THEN 0
    ELSE Head(rows).obtained_marks[1] + SumObtained(Tail(rows))

(* round(num / den, 2) in hundredths, num / den being hundredths: the tie
   goes to the even digit *)
RoundHundredths(num, den) ==
    LET q == num \div den
        r == num % den
    IN  IF 2 * r < den THEN q
        ELSE IF 2 * r > den THEN q + 1
        ELSE IF q % 2 = 0 THEN q ELSE q + 1

(* The rows of the two queries: student_username = u AND obtained_marks
   IS NOT NULL *)
GradedRowsOf(sols, u) ==
    LET Graded(r) == r.student_username = u /\ ~IsNull(r.obtained_marks)
    IN  SelectSeq(sols, Graded)

(* One entry of student_stats: COUNT(DISTINCT submission_group) and
   round(AVG(obtained_marks), 2), the average in hundredths *)
StudentStat(sols, u) ==
    LET rows == GradedRowsOf(sols, u)
        groups == { rows[i].submission_group : i \in 1..Len(rows) } \ {NULL}
    IN  [ count |-> Cardinality(groups),
          avg |-> IF rows = << >> THEN 0
                  ELSE RoundHundredths(50 * SumObtained(rows), Len(rows)) ]

Students == { u.username : u \in { x \in users : x.role = "student" } }

----------------------------------------------------------------------------
(* teacher_dashboard: the grading queue of lines 296-324.  The rows come
   ORDER BY submitted_at DESC and a group shows the marks of its first row;
   rows with one submitted_at come in an order the database chooses, so
   any of the latest rows of a group may be that first row. *)

(* gid = r.get("submission_group") or f"legacy_{r['id']}" *)
DashboardKey(r) ==
    IF IsNull(r.submission_group) THEN <<"legacy", r.id>>
    ELSE r.submission_group

FirstRowsOf(sols, k) ==
    LET rows == { sols[i] : i \in 1..Len(sols) }
        mine == { r \in rows : DashboardKey(r) = k }
    IN  { r \in mine : \A q \in mine : q.submitted_at <= r.submitted_at }

(* the groups that ungraded_submissions can list *)
ungraded_submissions(sols) ==
    { k \in { DashboardKey(sols[i]) : i \in 1..Len(sols) } :
        \E r \in FirstRowsOf(sols, k) : IsNull(r.obtained_marks) }

(* one entry of group_map per key, with the paper_id of the key's first row
   (the rows of a group are inserted with one paper_id) *)
GroupKeys(sols) == { DashboardKey(sols[i]) : i \in 1..Len(sols) }

GroupPaper(sols, k) == (CHOOSE r \in FirstRowsOf(sols, k) : TRUE).paper_id

(* counting the groups instead of their papers *)
answered_paper_ids_PerGroup(sols) == GroupKeys(sols)

(* line 396 *)
answered_paper_ids(sols) == { GroupPaper(sols, k) : k \in GroupKeys(sols) }

(* lines 327 and 396-399: the numbers of the top cards *)
PaperCards(paps, sols) ==
    LET total_papers == Cardinality(paps)
        total_answered_papers == Cardinality(answered_paper_ids(sols))
        diff == total_papers - total_answered_papers
    IN  [ total_papers |-> total_papers,
          total_answered_papers |-> total_answered_papers,
          total_not_answered_papers |-> IF diff > 0 THEN diff ELSE 0 ]

----------------------------------------------------------------------------
(* student_profile (POST) *)

(* UPDATE users SET username = new WHERE username = old: the primary key
   refuses a second row with the same username *)
UpdateUsername(us, old, new) ==
    IF /\ \E u \in us : u.username = old
       /\ \E u \in us : u.username = new /\ new # old
    THEN [ok |-> FALSE, users |-> us]
    ELSE [ok |-> TRUE,
          users |-> { IF u.username = old THEN [u EXCEPT !.username = new]
                      ELSE u : u \in us }]

(* a rename that stores the renamed rows as new, ungraded rows *)
RenameSolutions_AsNewRows(sols, old, new) ==
    [i \in 1..Len(sols) |->
        IF sols[i].student_username = old
        THEN NewSolution(sols[i].id, sols[i].paper_id, new, sols[i].filename,
                         sols[i].submitted_at, sols[i].submission_group)
        ELSE sols[i]]

(* UPDATE solutions SET student_username = new WHERE student_username = old *)
RenameSolutions(sols, old, new) ==
    [i \in 1..Len(sols) |->
        IF sols[i].student_username = old
        THEN [sols[i] EXCEPT !.student_username = new] ELSE sols[i]]

SetName(us, uname, v) ==
    { IF u.username = uname THEN [u EXCEPT !.name = v] ELSE u : u \in us }

SetPassword(us, uname, v) ==
    { IF u.username = uname THEN [u EXCEPT !.password = v] ELSE u : u \in us }

SetProfilePic(us, uname, v) ==
    { IF u.username = uname THEN [u EXCEPT !.profile_pic = v] ELSE u : u \in us }

(* lines 810-836, for the user now called uname *)
ProfileTail(us, sols, uname, form) ==
    IF form.password # "" /\ form.password # form.confirm
    THEN [res |-> "mismatch", users |-> us, sols |-> sols, username |-> uname]
    ELSE LET us1 == IF form.password # ""
                    THEN SetPassword(us, uname, form.password) ELSE us
         IN  IF form.avatar = << >>
             THEN [res |-> "ok", users |-> us1, sols |-> sols, username |-> uname]
             ELSE IF Ext(form.avatar) \notin {"jpg", "jpeg", "png"}
             THEN [res |-> "bad_avatar", users |-> us1, sols |-> sols,
                   username |-> uname]
             ELSE [res |-> "ok",
                   users |-> SetProfilePic(us1, uname,
                                 <<"avatar", uname, Ext(form.avatar)>>),
                   sols |-> sols, username |-> uname]

(* lines 790-808: the rename *)
ProfileRename(us, sols, old, form) ==
    IF form.username = "" \/ form.username = old
    THEN ProfileTail(us, sols, old, form)
    ELSE IF \E u \in us : u.username = form.username
    THEN [res |-> "taken", users |-> us, sols |-> sols, username |-> old]
    ELSE LET upd == UpdateUsername(us, old, form.username)
         IN  ProfileTail(upd.users,
                         RenameSolutions(sols, old, form.username),
                         form.username, form)

(* The whole POST for the session of browser b: [res, users, sols, username
   (the session's username afterwards)] *)
ProfileResult(b, form) ==
    IF CurrentUser(b) = {}
    THEN [res |-> "error", users |-> users, sols |-> solutions,
          username |-> sessions[b].username]
    ELSE LET old == sessions[b].username
             us1 == IF form.name # "" THEN SetName(users, old, form.name)
                    ELSE users
         IN  ProfileRename(us1, solutions, old, form)

----------------------------------------------------------------------------
(* The requests, each handled to completion *)

NoRequest == [pc |-> "idle"]

Init ==
    /\ users = DEFAULT_USERS
    /\ papers = {}
    /\ solutions = << >>
    /\ nextPaperId = 1
    /\ nextSolId = 1
    /\ nextGroup = 1
    /\ now = 1
    /\ sessions = [b \in Browsers |-> NoSession]
    /\ reqs = [b \in Browsers |-> NoRequest]

(* datetime.now(): the clock never runs backwards *)
ClockReads == now..MaxClock

(* login_required: a request without the session the route asks for is
   redirected to the login page *)
denied(b, role) ==
    /\ reqs[b] = NoRequest
    /\ ~LoggedIn(b, role)
    /\ UNCHANGED vars

login(b, form) ==
    LET found == { u \in users : /\ Lower(u.username) = Lower(Lower(form[1]))
                                 /\ u.password = form[2]
                                 /\ u.role = form[3] }
    IN  /\ reqs[b] = NoRequest
        /\ IF found # {}
           THEN \E u \in found :
                  sessions' = [sessions EXCEPT ![b] =
                                 [username |-> u.username, role |-> u.role]]
           ELSE sessions' = sessions
        /\ UNCHANGED <<users, papers, solutions, nextPaperId, nextSolId,
                       nextGroup, now, reqs>>

upload_paper(b, title, file, t) ==
    /\ reqs[b] = NoRequest
    /\ LoggedIn(b, "teacher")
    /\ nextPaperId <= MaxPaperId
    /\ IF title = "" \/ file = << >> \/ Ext(file) # "pdf"
       THEN UNCHANGED <<papers, nextPaperId, now>>
       ELSE /\ papers' = papers \cup
                  { [id |-> nextPaperId, title |-> title,
                     filename |-> <<"paper", t, secure_filename(file)>>,
                     uploaded_by |-> sessions[b].username,
                     uploaded_at |-> t] }
            /\ nextPaperId' = nextPaperId + 1
            /\ now' = t
    /\ UNCHANGED <<users, solutions, nextSolId, nextGroup, sessions, reqs>>

delete_paper(b, paper_id) ==
    /\ reqs[b] = NoRequest
    /\ LoggedIn(b, "teacher")
    /\ LET sols == DeleteSolutionsOfPaper(solutions, paper_id)
       IN  /\ solutions' = sols
           /\ papers' = DeletePaperRow(papers, sols, paper_id).papers
    /\ UNCHANGED <<users, nextPaperId, nextSolId, nextGroup, now, sessions, reqs>>

upload_solution(b, paper_id, files, t) ==
    /\ reqs[b] = NoRequest
    /\ LoggedIn(b, "student")
    /\ LET r == UploadSolutionResult(sessions[b].username, paper_id, files, t)
       IN  /\ r.nid <= MaxSolId + 1
           /\ r.gen => nextGroup <= MaxGroup
           /\ solutions' = r.sols
           /\ nextSolId' = r.nid
           /\ nextGroup' = IF r.gen THEN nextGroup + 1 ELSE nextGroup
           /\ now' = IF r.gen THEN t ELSE now
    /\ UNCHANGED <<users, papers, nextPaperId, sessions, reqs>>

grade_solution(b, group_id, form) ==
    /\ reqs[b] = NoRequest
    /\ LoggedIn(b, "teacher")
    /\ solutions' = GradeUpdate(solutions, group_id, GradeParams(form))
    /\ UNCHANGED <<users, papers, nextPaperId, nextSolId, nextGroup, now,
                   sessions, reqs>>

student_profile(b, form) ==
    /\ reqs[b] = NoRequest
    /\ LoggedIn(b, "student")
    /\ LET r == ProfileResult(b, form)
       IN  /\ users' = r.users
           /\ solutions' = r.sols
           /\ sessions' = [sessions EXCEPT ![b].username = r.username]
    /\ UNCHANGED <<papers, nextPaperId, nextSolId, nextGroup, now, reqs>>

(* the two read-only pages of the teacher *)
view_submission(b, group_id, page) ==
    /\ reqs[b] = NoRequest
    /\ LoggedIn(b, "teacher")
    /\ ViewSubmission(solutions, group_id, page).res \in {"ok", "not_found"}
    /\ UNCHANGED vars

teacher_dashboard(b) ==
    /\ reqs[b] = NoRequest
    /\ LoggedIn(b, "teacher")
    /\ \A u \in Students : StudentStat(solutions, u).count >= 0
    /\ PaperCards(papers, solutions).total_papers >= 0
    /\ UNCHANGED vars

PaperTitles == {"", "Maths"}

PaperFiles == { << >>, <<"q", "pdf">>, <<"q", "jpg">> }

Next ==
    \/ \E b \in Browsers, r \in {"teacher", "student"} : denied(b, r)
    \/ \E b \in Browsers, f \in LoginForms : login(b, f)
    \/ \E b \in Browsers, t \in PaperTitles, f \in PaperFiles,
          c \in ClockReads : upload_paper(b, t, f, c)
    \/ \E b \in Browsers, p \in PaperIdInputs : delete_paper(b, p)
    \/ \E b \in Browsers, p \in PaperIdInputs, fs \in FileBatches,
          c \in ClockReads : upload_solution(b, p, fs, c)
    \/ \E b \in Browsers, g \in GroupIds \cup {NULL}, f \in GradeForms :
          grade_solution(b, g, f)
    \/ \E b \in Browsers, f \in ProfileForms : student_profile(b, f)
    \/ \E b \in Browsers, g \in GroupIds, pg \in PageInputs :
          view_submission(b, g, pg)
    \/ \E b \in Browsers : teacher_dashboard(b)

Spec == Init /\ [][Next]_vars

----------------------------------------------------------------------------
(* The requests of different browsers interleaved statement by statement:
   upload_solution and delete_paper run one db.execute per step (reqs[b]
   holds the handler's local variables between its statements); the other
   handlers used here execute a single statement that writes. *)

(* lines 514-538: the checks, uuid.uuid4() and now_str *)
upload_solution_begin(b, paper_id, files, t) ==
    /\ reqs[b] = NoRequest
    /\ LoggedIn(b, "student")
    /\ IF UploadChecks(solutions, sessions[b].username, paper_id, files) # "go"
       THEN UNCHANGED <<reqs, nextGroup, now>>
       ELSE /\ nextGroup <= MaxGroup
            /\ reqs' = [reqs EXCEPT ![b] =
                          [pc |-> "insert", files |-> files, i |-> 1,
                           c |-> [paper |-> paper_id,
                                  user |-> sessions[b].username,
                                  group |-> <<"uuid", nextGroup>>,
                                  now_str |-> t]]]
            /\ nextGroup' = nextGroup + 1
            /\ now' = t
    /\ UNCHANGED <<users, papers, solutions, nextPaperId, nextSolId, sessions>>

(* lines 540-561: one pass of the loop; the handler returns after the last
   file, a refused extension or a refused INSERT *)
upload_solution_file(b, t) ==
    /\ reqs[b].pc = "insert"
    /\ LET q == reqs[b]
           r == InsertFile(q.files[q.i], solutions, nextSolId, papers, q.c, t)
       IN  /\ r.nid <= MaxSolId + 1
           /\ solutions' = r.sols
           /\ nextSolId' = r.nid
           /\ now' = IF r.nid # nextSolId THEN t ELSE now
           /\ reqs' = [reqs EXCEPT ![b] =
                         IF r.res = "continue" /\ q.i < Len(q.files)
                         THEN [q EXCEPT !.i = q.i + 1]
                         ELSE NoRequest]
    /\ UNCHANGED <<users, papers, nextPaperId, nextGroup, sessions>>

(* line 498 *)
delete_paper_solutions(b, paper_id) ==
    /\ reqs[b] = NoRequest
    /\ LoggedIn(b, "teacher")
    /\ solutions' = DeleteSolutionsOfPaper(solutions, paper_id)
    /\ reqs' = [reqs EXCEPT ![b] = [pc |-> "delete", paper_id |-> paper_id]]
    /\ UNCHANGED <<users, papers, nextPaperId, nextSolId, nextGroup, now,
                   sessions>>

(* line 499 *)
delete_paper_row(b) ==
    /\ reqs[b].pc = "delete"
    /\ papers' = DeletePaperRow(papers, solutions, reqs[b].paper_id).papers
    /\ reqs' = [reqs EXCEPT ![b] = NoRequest]
    /\ UNCHANGED <<users, solutions, nextPaperId, nextSolId, nextGroup, now,
                   sessions>>

(* The interleavings are explored for the teacher in the first browser, a
   student in any browser, whole batches whose first file is stored or
   skipped, and a clock that stands still while the statements interleave. *)
ConcLogins ==
    { <<1, <<"admin", "Ujjwal9512", "teacher">> >> }
    \cup { <<b, <<"Rakhi", "Rakhi@9523", "student">> >> : b \in Browsers }

ConcBatches ==
    { fs \in FileBatches : Len(fs) = MaxFiles /\ fs[1] # InvalidName }

NextConc ==
    \/ \E l \in ConcLogins : login(l[1], l[2])
    \/ \E b \in Browsers, f \in PaperFiles : upload_paper(b, "Maths", f, now)
    \/ \E b \in Browsers, p \in PaperIdInputs, fs \in ConcBatches :
          upload_solution_begin(b, p, fs, now)
    \/ \E b \in Browsers : upload_solution_file(b, now)
    \/ \E b \in Browsers, g \in GroupIds \cup {NULL}, f \in GradeForms :
          grade_solution(b, g, f)
    \/ \E b \in Browsers, p \in PaperIdInputs : delete_paper_solutions(b, p)
    \/ \E b \in Browsers : delete_paper_row(b)

SpecConc == Init /\ [][NextConc]_vars

----------------------------------------------------------------------------
(* grade_solution on a database that an earlier version of the program has
   filled: a row stored before uploads were grouped has NULL in
   submission_group, and the dashboard lists it under the key legacy_<id>
   (line 302), which is the group_id its grading form then posts. *)

LegacyKey(id) == <<"legacy", id>>

StoredGroups == GroupIds \cup {NULL}

(* the paper a stored group answers: one paper per group, papers reused
   when there are more groups than papers *)
PaperOfStored(g) == IF IsNull(g) THEN 1 ELSE ((g[2] - 1) % MaxPaperId) + 1

StoredRow(id, g) ==
    NewSolution(id, PaperOfStored(g),
                IF IsNull(g) THEN "student02" ELSE "Rakhi",
                <<"sol", 1, secure_filename(ValidNames[((id - 1) % Len(ValidNames)) + 1])>>,
                1, g)

GradeStores ==
    UNION { { [i \in 1..n |-> StoredRow(i, gs[i])] :
                gs \in [1..n -> StoredGroups] } : n \in 0..MaxSolId }

StoredPapers ==
    { [id |-> p, title |-> "Maths", filename |-> <<"paper", 1, <<"q", "pdf">> >>,
       uploaded_by |-> "admin", uploaded_at |-> 1] : p \in 1..MaxPaperId }

InitGrade ==
    /\ users = DEFAULT_USERS
    /\ papers = StoredPapers
    /\ solutions \in GradeStores
    /\ nextPaperId = MaxPaperId + 1
    /\ nextSolId = Len(solutions) + 1
    /\ nextGroup = MaxGroup + 1
    /\ now = 1
    /\ sessions = [b \in Browsers |-> NoSession]
    /\ reqs = [b \in Browsers |-> NoRequest]

(* grading forms with fields that are absent, empty or no numbers *)
LenientForms ==
    GradeForms \cup
    { [total_questions |-> "None", attempted |-> "", correct |-> "abc",
       incorrect |-> "None", total_marks |-> "abc", obtained_marks |-> "",
       passing_marks |-> "None"],
      [total_questions |-> "2", attempted |-> "abc", correct |-> "1",
       incorrect |-> "", total_marks |-> "3", obtained_marks |-> "abc",
       passing_marks |-> "1"] }

(* the group_id values a grading form posts *)
GradeKeys == GroupIds \cup {NULL} \cup { LegacyKey(i) : i \in 1..MaxSolId }

NextGrade ==
    \/ \E b \in Browsers, f \in LoginForms : login(b, f)
    \/ \E b \in Browsers, g \in GradeKeys, f \in LenientForms :
          grade_solution(b, g, f)

SpecGrade == InitGrade /\ [][NextGrade]_vars

----------------------------------------------------------------------------
(* student_profile with forms that fill several fields at once, on a store
   that uploads have filled *)

ProfileFormsAll ==
    ProfileForms \cup
    { [name |-> "New", username |-> "student02", password |-> "",
       confirm |-> "", avatar |-> << >>],
      [name |-> "", username |-> "zed", password |-> "pw",
       confirm |-> "other", avatar |-> << >>],
      [name |-> "", username |-> "", password |-> "pw",
       confirm |-> "pw", avatar |-> <<"pic", "gif">>],
      [name |-> "", username |-> "", password |-> "",
       confirm |-> "", avatar |-> <<"pic", "gif">>],
      [name |-> "New", username |-> "", password |-> "pw",
       confirm |-> "pw", avatar |-> <<"pic", "PNG">>] }

NextProfile ==
    \/ \E l \in ConcLogins : login(l[1], l[2])
    \/ \E b \in Browsers : upload_paper(b, "Maths", <<"q", "pdf">>, now)
    \/ \E b \in Browsers, p \in PaperIdInputs :
          upload_solution(b, p, <<ValidNames[1]>>, now)
    \/ \E b \in Browsers, f \in ProfileFormsAll : student_profile(b, f)

SpecProfile == Init /\ [][NextProfile]_vars

----------------------------------------------------------------------------
(* Vocabulary of the properties *)

Rows(sols) == { sols[i] : i \in 1..Len(sols) }

GroupsIn(sols) == { r.submission_group : r \in Rows(sols) }

GroupRows(sols, g) == { r \in Rows(sols) : r.submission_group = g }

GradingOf(r) ==
    <<r.total_questions, r.attempted, r.correct, r.incorrect, r.total_marks,
      r.obtained_marks, r.passing_marks, r.result_status>>

Ungraded == <<NULL, NULL, NULL, NULL, NULL, NULL, NULL, NULL>>

(* a file that has a name and an extension outside {jpg, jpeg, png} *)
HasInvalidFile(files) ==
    \E i \in 1..Len(files) :
        files[i] # << >> /\ Ext(files[i]) \notin {"jpg", "jpeg", "png"}

(* the named files of a batch, in batch order *)
NamedFiles(files) == LET Named(f) == f # << >> IN SelectSeq(files, Named)

(* A step of upload_solution that changes the state has generated a group
   identifier; the checks of the steps of upload_solution start from it. *)
UploadStep == nextGroup' # nextGroup

----------------------------------------------------------------------------
(* C1: create_submission_group is all-or-nothing: a batch holding a named
   file with an extension outside {jpg, jpeg, png} is rejected and leaves
   the rows of the Submission Store as they were, wherever the file is in
   the batch. *)
C1_AllOrNothing ==
    [][ UploadStep =>
          \A b \in Browsers, p \in PaperIdInputs, fs \in FileBatches,
             t \in ClockReads :
             (HasInvalidFile(fs) /\ upload_solution(b, p, fs, t))
                => /\ UploadSolutionResult(sessions[b].username, p, fs, t).res
                         # "ok"
                   /\ solutions' = solutions ]_vars

----------------------------------------------------------------------------
(* C2: one attempt per paper per student: once rows exist for a (paper,
   student) pair, an upload for the pair answers "duplicate" and inserts
   nothing, and no state holds two submission groups for one pair. *)
C2_OneAttemptPerPaper ==
    /\ \A b \in Browsers, p \in PaperIdInputs, fs \in FileBatches :
          (LoggedIn(b, "student") /\ p # 0
             /\ \E r \in Rows(solutions) :
                   r.paper_id = p /\ r.student_username = sessions[b].username)
          => LET res == UploadSolutionResult(sessions[b].username, p, fs, now)
             IN  res.res = "duplicate" /\ res.sols = solutions
    /\ \A r1, r2 \in Rows(solutions) :
          (r1.paper_id = r2.paper_id
             /\ r1.student_username = r2.student_username)
          => r1.submission_group = r2.submission_group

----------------------------------------------------------------------------
(* C3: no submission group is ever partially graded: its rows are all
   ungraded (every grading field and the status NULL), or all carry the
   same non-NULL grading fields and the same status. *)
FullyGraded(r) == \A k \in 1..8 : ~IsNull(GradingOf(r)[k])

C3_NeverPartiallyGraded ==
    \A g \in GroupsIn(solutions) :
        \/ \A r \in GroupRows(solutions, g) : GradingOf(r) = Ungraded
        \/ /\ \A r \in GroupRows(solutions, g) : FullyGraded(r)
           /\ \A r1, r2 \in GroupRows(solutions, g) :
                 GradingOf(r1) = GradingOf(r2)

(* a graded group of two rows beside an ungraded group *)
C3_Witness ==
    \E g1, g2 \in GroupsIn(solutions) :
        /\ Cardinality(GroupRows(solutions, g1)) >= 2
        /\ \A r \in GroupRows(solutions, g1) : FullyGraded(r)
        /\ \A r \in GroupRows(solutions, g2) : GradingOf(r) = Ungraded

----------------------------------------------------------------------------
(* C4: after grade(group, fields) every row of the group holds the seven
   grading fields as given, and the status that is PASS exactly when
   obtained_marks >= passing_marks.  (The given marks are in halves, an
   INTEGER column holds units.) *)
HoldsAsGiven(r, form) ==
    /\ r.total_questions = <<to_int(form.total_questions)>>
    /\ r.attempted = <<to_int(form.attempted)>>
    /\ r.correct = <<to_int(form.correct)>>
    /\ r.incorrect = <<to_int(form.incorrect)>>
    /\ ~IsNull(r.total_marks)
    /\ 2 * r.total_marks[1] = to_float(form.total_marks)
    /\ r.obtained_marks = <<to_float(form.obtained_marks)>>
    /\ r.passing_marks = <<to_float(form.passing_marks)>>
    /\ r.result_status \in {<<"PASS">>, <<"FAIL">>}
    /\ r.result_status = <<"PASS">>
          <=> to_float(form.obtained_marks) >= to_float(form.passing_marks)

C4_GradeAsGiven ==
    [][ solutions' # solutions =>
          \A b \in Browsers, g \in GroupIds, f \in GradeForms :
             grade_solution(b, g, f)
                => \A r \in GroupRows(solutions', g) : HoldsAsGiven(r, f) ]_vars

----------------------------------------------------------------------------
(* C6: the dashboard's average of a student is 0 without a graded group,
   and otherwise the mean of obtained_marks taken once per graded group
   (rounded to hundredths as the dashboard rounds). *)
GradedGroupsOf(u) ==
    { g \in GroupsIn(solutions) :
        \E r \in GroupRows(solutions, g) :
            r.student_username = u /\ ~IsNull(r.obtained_marks) }

GroupMark(g, u) ==
    (CHOOSE r \in GroupRows(solutions, g) :
        r.student_username = u /\ ~IsNull(r.obtained_marks)).obtained_marks[1]

RECURSIVE SumGroupMarks(_, _)
SumGroupMarks(G, u) ==
    IF G = {} THEN 0
    ELSE LET g == CHOOSE x \in G : TRUE
         IN  GroupMark(g, u) + SumGroupMarks(G \ {g}, u)

C6_MeanPerGroup ==
    \A u \in Students :
        StudentStat(solutions, u).avg =
            IF GradedGroupsOf(u) = {} THEN 0
            ELSE RoundHundredths(50 * SumGroupMarks(GradedGroupsOf(u), u),
                                 Cardinality(GradedGroupsOf(u)))

----------------------------------------------------------------------------
(* C8: usernames are pairwise distinct and every submission row's
   student_username is the username of a user, after any sequence of
   operations including renames. *)
C8_IdentitiesConsistent ==
    /\ \A u1, u2 \in users : u1.username = u2.username => u1 = u2
    /\ \A r \in Rows(solutions) :
          \E u \in users : u.username = r.student_username

----------------------------------------------------------------------------
(* C9: a successful upload of a batch whose named files all have an allowed
   extension appends exactly one row per named file, in batch order; the
   rows share one group identifier that no stored row used, the paper, the
   student and submitted_at, and are ungraded. *)
AllNamedValid(files) ==
    \A i \in 1..Len(files) :
        files[i] # << >> => Ext(files[i]) \in {"jpg", "jpeg", "png"}

IsOneNewGroup(old, new, paper_id, student, files) ==
    LET named == NamedFiles(files)
        n == Len(named)
        first == new[Len(old) + 1]
    IN  /\ n >= 1
        /\ Len(new) = Len(old) + n
        /\ SubSeq(new, 1, Len(old)) = old
        /\ first.submission_group \notin GroupsIn(old) \cup {NULL}
        /\ \A j \in 1..n :
              LET r == new[Len(old) + j] IN
              /\ r.filename[3] = secure_filename(named[j])
              /\ r.paper_id = paper_id
              /\ r.student_username = student
              /\ r.submission_group = first.submission_group
              /\ r.submitted_at = first.submitted_at
              /\ GradingOf(r) = Ungraded
              /\ \A q \in Rows(old) : q.id < r.id
              /\ \A k \in 1..(j - 1) : new[Len(old) + k].id < r.id

C9_OneGroupPerUpload ==
    [][ UploadStep =>
          \A b \in Browsers, p \in PaperIdInputs, fs \in FileBatches,
             t \in ClockReads :
             ( /\ AllNamedValid(fs)
               /\ upload_solution(b, p, fs, t)
               /\ UploadSolutionResult(sessions[b].username, p, fs, t).res = "ok" )
             => IsOneNewGroup(solutions, solutions', p,
                              sessions[b].username, fs) ]_vars

(* a group of two rows, in the order of the batch, stored after the rows of
   an earlier group with another timestamp *)
C9_Witness ==
    \E i \in 2..(Len(solutions) - 1) :
        /\ solutions[i].submission_group = solutions[i + 1].submission_group
        /\ solutions[i].filename[3] = secure_filename(ValidNames[1])
        /\ solutions[i + 1].filename[3] = secure_filename(ValidNames[2])
        /\ solutions[i - 1].submission_group # solutions[i].submission_group
        /\ solutions[i - 1].submitted_at # solutions[i].submitted_at

----------------------------------------------------------------------------
(* C10: for a group that has rows, view_submission answers every page
   number with the file of page max(1, min(page, count)), the rows counted
   in the order of their ids; for a group without rows it answers
   not found. *)
Max2(a, b) == IF a >= b THEN a ELSE b

Min2(a, b) == IF a <= b THEN a ELSE b

(* the row of group g that has exactly k rows of g with ids up to its own *)
KthRow(sols, g, k) ==
    CHOOSE r \in GroupRows(sols, g) :
        Cardinality({ q \in GroupRows(sols, g) : q.id <= r.id }) = k

C10_PageClamped ==
    \A g \in GroupIds, page \in PageInputs :
        LET count == Cardinality(GroupRows(solutions, g))
            v == ViewSubmission(solutions, g, page)
        IN  IF count = 0 THEN v.res = "not_found"
            ELSE /\ v.res = "ok"
                 /\ v.current_file =
                       KthRow(solutions, g, Max2(1, Min2(page, count))).filename

(* a group of two different files: page 0 shows the first file, page 3 the
   last *)
C10_Witness ==
    \E g \in GroupIds :
        /\ Cardinality(GroupRows(solutions, g)) = 2
        /\ ViewSubmission(solutions, g, 0).current_file
              = KthRow(solutions, g, 1).filename
        /\ ViewSubmission(solutions, g, 3).current_file
              = KthRow(solutions, g, 2).filename
        /\ KthRow(solutions, g, 1).filename # KthRow(solutions, g, 2).filename

----------------------------------------------------------------------------
(* C5: when a grade request for a group runs between the INSERTs of the
   upload that creates the group, no state has rows of the group graded
   beside rows of the group that are not. *)
C5_GradeAtomicWithUpload ==
    \A g \in GroupsIn(solutions) :
        \A r1, r2 \in GroupRows(solutions, g) :
            IsNull(r1.obtained_marks) <=> IsNull(r2.obtained_marks)

----------------------------------------------------------------------------
(* C7: every row's paper_id is the id of a stored paper; the DELETE of the
   rows of a paper leaves none of the paper's groups to list, a paper is
   removed only when no row references it, and no INSERT stores a row for
   an unknown paper, whatever runs between the statements. *)
NoOrphans(paps, sols) == \A r \in Rows(sols) : r.paper_id \in PaperIds(paps)

GroupsOfPaper(sols, p) ==
    { r.submission_group : r \in { x \in Rows(sols) : x.paper_id = p } }

----------------------------------------------------------------------------
(* C11: grade(group_id, fields) changes nothing but the grading fields and
   result_status of the rows whose submission_group is group_id: the number
   and order of the rows, every row of another group and the id, paper_id,
   student_username, filename, submitted_at and submission_group of every
   row stay; when no row has the group_id (a key legacy_<id> included) the
   store stays as it is. *)
FrameOf(r) ==
    <<r.id, r.paper_id, r.student_username, r.filename, r.submitted_at,
      r.submission_group>>

C11_GradeFrame ==
    [][ \A b \in Browsers, g \in GradeKeys, f \in LenientForms :
          grade_solution(b, g, f)
             => /\ Len(solutions') = Len(solutions)
                /\ \A i \in 1..Len(solutions) :
                      /\ FrameOf(solutions'[i]) = FrameOf(solutions[i])
                      /\ solutions[i].submission_group # g
                            => solutions'[i] = solutions[i]
                /\ (\A r \in Rows(solutions) : r.submission_group # g)
                      => solutions' = solutions ]_vars

(* a legacy row left ungraded beside a graded group and an ungraded group *)
C11_Witness ==
    /\ \E r \in Rows(solutions) :
          IsNull(r.submission_group) /\ GradingOf(r) = Ungraded
    /\ \E r \in Rows(solutions) :
          ~IsNull(r.submission_group) /\ ~IsNull(r.result_status)
    /\ \E r \in Rows(solutions) :
          ~IsNull(r.submission_group) /\ GradingOf(r) = Ungraded

----------------------------------------------------------------------------
(* C12: grading a group again with the same fields leaves the store as the
   first grading left it, and grading a graded group with other fields
   leaves every row of the group holding exactly the later fields and the
   status derived from them. *)
C12_RegradeLastWriteWins ==
    [][ \A b \in Browsers, g \in GroupIds, f \in GradeForms :
          (/\ grade_solution(b, g, f)
           /\ \E r \in GroupRows(solutions, g) : FullyGraded(r))
             => /\ GradeUpdate(solutions', g, GradeParams(f)) = solutions'
                /\ \A r \in GroupRows(solutions', g) : HoldsAsGiven(r, f)
      ]_vars

----------------------------------------------------------------------------
(* C13: GRADED is terminal: a grade request leaves every row of its group
   with obtained_marks and a result_status of PASS or FAIL, and a group
   whose rows are all graded keeps them graded, and stays out of the
   dashboard's grading queue, through every later request that leaves it
   rows. *)
IsGraded(r) ==
    ~IsNull(r.obtained_marks) /\ r.result_status \in {<<"PASS">>, <<"FAIL">>}

----------------------------------------------------------------------------
(* C14: grade accepts every input: a grading field that is absent, empty or
   not a number of its column's kind is stored as 0, a field that is such a
   number is stored as given, and result_status is PASS exactly when the
   obtained marks so coerced are >= the passing marks so coerced (0 and 0
   give PASS).  (Marks are in halves, an INTEGER column holds units.) *)
Coerced(val, literal) ==
    IF val \in {"None", ""} \/ IsNull(literal) THEN 0 ELSE literal[1]

StoredCoerced(r, f) ==
    /\ r.total_questions = <<Coerced(f.total_questions, IntLiteral(f.total_questions))>>
    /\ r.attempted = <<Coerced(f.attempted, IntLiteral(f.attempted))>>
    /\ r.correct = <<Coerced(f.correct, IntLiteral(f.correct))>>
    /\ r.incorrect = <<Coerced(f.incorrect, IntLiteral(f.incorrect))>>
    /\ ~IsNull(r.total_marks)
    /\ 2 * r.total_marks[1] = Coerced(f.total_marks, FloatLiteral(f.total_marks))
    /\ r.obtained_marks
          = <<Coerced(f.obtained_marks, FloatLiteral(f.obtained_marks))>>
    /\ r.passing_marks
          = <<Coerced(f.passing_marks, FloatLiteral(f.passing_marks))>>
    /\ r.result_status =
          IF Coerced(f.obtained_marks, FloatLiteral(f.obtained_marks))
                >= Coerced(f.passing_marks, FloatLiteral(f.passing_marks))
          THEN <<"PASS">> ELSE <<"FAIL">>

C14_LenientInput ==
    [][ \A b \in Browsers, g \in GroupIds, f \in LenientForms :
          (grade_solution(b, g, f) /\ GroupRows(solutions, g) # {})
             => /\ GroupRows(solutions', g) # {}
                /\ \A r \in GroupRows(solutions', g) : StoredCoerced(r, f)
      ]_vars

----------------------------------------------------------------------------
(* C15: on the teacher dashboard total_answered_papers is the number of
   papers that have at least one submission row (a paper with groups of
   two students counts once), total_not_answered_papers is total_papers
   minus total_answered_papers, neither is negative and their sum is
   total_papers. *)
PapersWithRows ==
    { p \in papers : \E i \in 1..Len(solutions) : solutions[i].paper_id = p.id }

C15_AnsweredCoverage ==
    LET c == PaperCards(papers, solutions)
    IN  /\ c.total_papers = Cardinality(papers)
        /\ c.total_answered_papers = Cardinality(PapersWithRows)
        /\ c.total_not_answered_papers
              = c.total_papers - c.total_answered_papers
        /\ c.total_answered_papers >= 0
        /\ c.total_not_answered_papers >= 0
        /\ c.total_answered_papers + c.total_not_answered_papers
              = c.total_papers

(* two papers, one answered by groups of two students, one not answered *)
C15_Witness ==
    /\ Cardinality(papers) = 2
    /\ Cardinality(PapersWithRows) = 1
    /\ \E i, j \in 1..Len(solutions) :
          /\ solutions[i].paper_id = solutions[j].paper_id
          /\ solutions[i].submission_group # solutions[j].submission_group
          /\ solutions[i].student_username # solutions[j].student_username
    /\ PaperCards(papers, solutions).total_not_answered_papers = 1

----------------------------------------------------------------------------
(* C16: when two upload requests of one student for one paper interleave,
   each making its existence check before the other has inserted a row, at
   most one of them inserts rows: no state holds rows of two submission
   groups for one paper and one student. *)
GroupsOfPair(p, u) ==
    { solutions[i].submission_group :
        i \in { j \in 1..Len(solutions) :
                  /\ solutions[j].paper_id = p
                  /\ solutions[j].student_username = u } }

C16_OneAttemptInterleaved ==
    \A p \in 1..MaxPaperId, u \in { x.username : x \in users } :
        Cardinality(GroupsOfPair(p, u)) <= 1

----------------------------------------------------------------------------
(* C17: a profile update that ends with an error (username taken, password
   and confirmation different, avatar extension refused) leaves every
   user's name, username, password and profile_pic and every row's
   student_username as they were, whatever else the form holds. *)
ProfileErrors == {"taken", "mismatch", "bad_avatar"}

C17_RejectedProfileUnchanged ==
    [][ \A b \in Browsers, f \in ProfileFormsAll :
          (student_profile(b, f) /\ ProfileResult(b, f).res \in ProfileErrors)
             => /\ users' = users
                /\ \A i \in 1..Len(solutions) :
                      solutions'[i].student_username
                         = solutions[i].student_username ]_vars

====
